---------------------------- MODULE Spec2Model ----------------------------
(***************************************************************************)
(* Relativistic asteroids: the particle pool (Pool), the particle          *)
(* integrator and collision code (Particle, SolveCollisions), the helpers  *)
(* (Gamma, explode, newAsteroidPool) and the game loop (Game), as a state  *)
(* machine.                                                                *)
(*                                                                         *)
(* Numbers.  The program computes in float64.  The model computes on an    *)
(* integer grid and keeps the three IEEE values that the code can produce  *)
(* and that change its control flow: NaN, +Inf and -Inf.  The model is     *)
(* one-dimensional: every vector is its x component (all inputs have       *)
(* y = 0, and the operations used keep y = 0).  Lengths are in tenths of   *)
(* the program's length unit, times in ticks (one tick is the program's    *)
(* dt), speeds in length units per tick.  The Lorentz factor, the proper   *)
(* time step dtr and the clocks are fixed-point numbers with Res steps     *)
(* per unit, rounded toward zero.                                          *)
(*                                                                         *)
(* Arrays.  A Go slice is a sequence; the Go index i is the model index    *)
(* i + 1.                                                                  *)
(***************************************************************************)
EXTENDS Integers, Sequences, FiniteSets, TLC

(***************************************************************************)
(* Bounds of the model.                                                    *)
(***************************************************************************)
Res == 4            \* fixed-point steps per unit of gamma, dtr and clock
MaxOps == 4         \* calls that change a pool or the time, per behaviour
QueryOps == 3       \* the same, in the behaviours that also make queries
MaxTicks == 4       \* calls of Game.Update per behaviour
TicksPerSecond == 10    \* ticks per second of the game (the program: 60)
LightSpeed == 16    \* the speed of light a game starts with, in tenths of
                    \* a length unit per tick (the program: 299792458 units
                    \* per second)
MaxRampTicks == 34  \* calls of Game.Update in a behaviour that follows a ramp
MaxReplayTicks == 8 \* calls of Game.Update in a behaviour with a second game
AsteroidCount == 2  \* asteroids a game starts with (the program: 64)
BulletSlots == 1    \* slots of the new bullet pool (the program: 256)
ExplosionSlots == 1 \* slots of the new explosion pool (the program: 256)
MaxFlightTicks == 96    \* calls of Game.Update per behaviour of a flight
Burn == 10          \* ticks the pilot of a flight thrusts before the shot

(***************************************************************************)
(* float64 on the grid                                                     *)
(***************************************************************************)
PInf == 10 ^ 6
NInf == 0 - PInf
NaN == PInf + 1

IsNaN(x) == x = NaN
IsInf(x) == x = PInf \/ x = NInf
IsFinite(x) == ~IsNaN(x) /\ ~IsInf(x)

Abs(x) == IF x < 0 THEN 0 - x ELSE x
Sgn(x) == IF x > 0 THEN 1 ELSE IF x < 0 THEN 0 - 1 ELSE 0

\* a / b rounded toward zero, b # 0, both finite
TDiv(a, b) == Sgn(a) * Sgn(b) * (Abs(a) \div Abs(b))

FNeg(a) == IF IsNaN(a) THEN NaN ELSE IF IsInf(a) THEN 0 - a ELSE 0 - a

FAdd(a, b) ==
    IF IsNaN(a) \/ IsNaN(b) THEN NaN
    ELSE IF IsInf(a) /\ IsInf(b) THEN (IF a = b THEN a ELSE NaN)
    ELSE IF IsInf(a) THEN a
    ELSE IF IsInf(b) THEN b
    ELSE a + b

FSub(a, b) == FAdd(a, FNeg(b))

FMul(a, b) ==
    IF IsNaN(a) \/ IsNaN(b) THEN NaN
    ELSE IF IsInf(a) \/ IsInf(b)
         THEN (IF a = 0 \/ b = 0 THEN NaN
               ELSE IF Sgn(a) * Sgn(b) > 0 THEN PInf ELSE NInf)
    ELSE a * b

\* a / b, the quotient rounded toward zero
FDiv(a, b) ==
    IF IsNaN(a) \/ IsNaN(b) THEN NaN
    ELSE IF IsInf(a) THEN (IF IsInf(b) THEN NaN
                           ELSE IF Sgn(a) * (IF b < 0 THEN 0 - 1 ELSE 1) > 0
                                THEN PInf ELSE NInf)
    ELSE IF IsInf(b) THEN 0
    ELSE IF b = 0 THEN (IF a = 0 THEN NaN ELSE IF a > 0 THEN PInf ELSE NInf)
    ELSE TDiv(a, b)

\* a < b; false when either is NaN
FLt(a, b) == ~IsNaN(a) /\ ~IsNaN(b) /\ a < b

FAbs(a) == IF IsNaN(a) THEN NaN ELSE Abs(a)

(***************************************************************************)
(* Vector, its component along one axis.  Unit is v.Scl(1 / v.Mag()): of   *)
(* the zero vector 0 * (1 / 0) = NaN, of an infinite vector                *)
(* Inf * (1 / Inf) = NaN.  SetMag returns the zero vector as it is.        *)
(***************************************************************************)
Mag(v) == FAbs(v)

Unit(v) ==
    IF IsNaN(v) \/ IsInf(v) \/ v = 0 THEN NaN ELSE Sgn(v)

SetMag(v, s) == IF v = 0 THEN v ELSE FMul(Unit(v), s)

Dot(a, b) == FMul(a, b)

SqrDist(a, b) == FMul(FSub(a, b), FSub(a, b))

(***************************************************************************)
(* Gamma(v, c) = 1 / sqrt(1 - v*v / (c*c)), in steps of 1/Res, rounded     *)
(* toward zero.  v*v = c*c divides by zero (+Inf); v*v > c*c takes the     *)
(* root of a negative number (NaN).                                        *)
(***************************************************************************)
Gamma(v, c) ==
    IF IsNaN(v) \/ IsInf(v) \/ ~IsFinite(c) \/ c = 0 THEN NaN
    ELSE IF v * v > c * c THEN NaN
    ELSE IF v * v = c * c THEN PInf
    ELSE LET D == c * c - v * v
             N == Res * Res * c * c
         IN  CHOOSE g \in Res .. (Res * Abs(c)) :
                 g * g * D <= N /\ (g + 1) * (g + 1) * D > N

(***************************************************************************)
(* tanh(r / c) for r >= 0, c > 0, in sixteenths, rounded toward zero.      *)
(* TanhSteps[k] is 10000 * atanh(k / 16), the least x at which tanh x      *)
(* reaches k / 16; float64 rounds tanh x to exactly 1 from x = 19.07 on.   *)
(***************************************************************************)
TanhSteps ==
    <<626, 1257, 1898, 2555, 3234, 3943, 4692, 5494, 6365, 7332, 8432, 9730,
      11344, 13541, 17170, 190700>>

TanhSixteenths(r, c) ==
    Cardinality({k \in 1 .. 16 : 10000 * r >= TanhSteps[k] * c})

\* rap.SetMag(c * math.Tanh(rap.Mag() / c))
TanhImage(rap, c) ==
    IF rap = 0 THEN rap
    ELSE IF ~IsFinite(rap) \/ ~IsFinite(c) THEN NaN
    ELSE SetMag(rap, TDiv(c * TanhSixteenths(Mag(rap), c), 16))

(***************************************************************************)
(* Particle                                                                *)
(***************************************************************************)
PhysScaleNum == 3       \* physScale = 0.3
PhysScaleDen == 10

\* a nil *Particle
Nil == [nil |-> TRUE]

\* &Particle{Pos, Rap, Vel: 0, Acc: 0, AngPos, AngVel, Mass, Radius, Gamma: 1, Clock: 0}
NewParticle(pos, rap, angPos, angVel, mass, radius) ==
    [Pos |-> pos, Rap |-> rap, Vel |-> 0, Acc |-> 0,
     AngPos |-> angPos, AngVel |-> angVel,
     Mass |-> mass, Radius |-> radius, Gamma |-> Res, Clock |-> 0]

\* x * g for a fixed-point g, and x * g * g / 2, back on the grid
Scaled(x, d) == IF IsFinite(x) THEN TDiv(x, d) ELSE x

ParticleUpdate(p, force, frame, c, dt) ==
    LET relativeVelocity == FSub(p.Vel, frame)
        gamma == Gamma(Mag(relativeVelocity), c)
        dtr == FMul(dt, gamma)
        acc == FDiv(force, p.Mass)
        rap == FAdd(p.Rap, Scaled(FMul(FAdd(p.Acc, acc), dtr), 2 * Res))
        vel == TanhImage(p.Rap, c)
        pos == FAdd(FAdd(p.Pos, Scaled(FMul(p.Rap, dtr), Res)),
                    Scaled(FMul(p.Acc, FMul(dtr, dtr)), 2 * Res * Res))
    IN  [p EXCEPT !.Gamma = gamma,
                  !.Clock = FAdd(p.Clock, dtr),
                  !.AngPos = FAdd(p.AngPos, FMul(p.AngVel, dtr)),
                  !.Acc = acc, !.Rap = rap, !.Vel = vel, !.Pos = pos]

ScaledRadius(p) == TDiv(p.Radius * PhysScaleNum, PhysScaleDen)

(***************************************************************************)
(* The radius of p along the collision axis,                               *)
(*   ScaledRadius * (1 - Unit(Vel - frame).Dot(axis) * (1 - 1/Gamma)),     *)
(* as a fraction <<numerator, denominator>>, and ScaledRadius when that    *)
(* product is NaN.                                                         *)
(***************************************************************************)
ContractedRadius(p, axis, frame) ==
    LET sr == ScaledRadius(p)
        dot == Dot(Unit(FSub(p.Vel, frame)), axis)
        g == p.Gamma
    IN  IF IsNaN(dot) \/ IsNaN(g) THEN <<sr, 1>>
        ELSE IF g = PInf THEN <<sr * (1 - dot), 1>>
        ELSE IF g = 0 THEN (IF sr = 0 THEN <<sr, 1>>
                            ELSE <<IF dot > 0 THEN PInf ELSE NInf, 1>>)
        ELSE <<sr * (g - dot * (g - Res)), g>>

CheckCollision(p, q, frame) ==
    LET axis == Unit(FSub(p.Pos, q.Pos))
        pRadius == ContractedRadius(p, axis, frame)
        qRadius == ContractedRadius(q, axis, frame)
        distance == Mag(FSub(p.Pos, q.Pos))
    IN  IF IsInf(pRadius[1]) \/ IsInf(qRadius[1])
        THEN FLt(distance, FAdd(pRadius[1], qRadius[1]))
        ELSE IF ~IsFinite(distance) THEN FALSE
        ELSE distance * pRadius[2] * qRadius[2]
                 < pRadius[1] * qRadius[2] + qRadius[1] * pRadius[2]

(***************************************************************************)
(* SolveCollisions.  The velocity of a particle with velocity v after the  *)
(* bounce, with M the momentum of the pair and W the sum of the relative   *)
(* masses (CoM = M / W):                                                   *)
(*   vCoM = (v - CoM) / (1 - v*CoM/c^2)                                    *)
(*   v'   = (-vCoM + CoM) / (1 - vCoM*CoM/c^2)                             *)
(*        = (2MWc^2 - vW^2c^2 - vM^2) / (c^2W^2 - 2vMW + M^2)              *)
(* computed exactly and rounded once.  A non-finite velocity or relative   *)
(* mass, or W = 0, makes CoM and both results NaN.                         *)
(***************************************************************************)
MassRel(p) == FMul(p.Mass, p.Gamma)

Momentum(p) == FMul(p.Vel, FMul(p.Mass, p.Gamma))

Bounce(v, M, W, c) ==
    IF ~IsFinite(v) \/ ~IsFinite(M) \/ ~IsFinite(W) \/ W = 0 THEN NaN
    ELSE FDiv(2 * M * W * c * c - v * W * W * c * c - v * M * M,
              c * c * W * W - 2 * v * M * W + M * M)

\* the body of the loop of SolveCollisions for a colliding pair
ResolvePair(pi, pj, c) ==
    LET distance == Mag(FSub(pi.Pos, pj.Pos))
        axis == Unit(FSub(pi.Pos, pj.Pos))
        stepSize == FSub(ScaledRadius(pi) + ScaledRadius(pj), distance)
        half == FMul(axis, Scaled(stepSize, 2))
        momentum == FAdd(Momentum(pi), Momentum(pj))
        W == FAdd(MassRel(pi), MassRel(pj))
        iv == Bounce(pi.Vel, momentum, W, c)
        jv == Bounce(pj.Vel, momentum, W, c)
    IN  << [pi EXCEPT !.Pos = FAdd(pi.Pos, half),
                      !.Rap = TanhImage(iv, c), !.Vel = iv],
           [pj EXCEPT !.Pos = FSub(pj.Pos, half),
                      !.Rap = TanhImage(jv, c), !.Vel = jv] >>

(***************************************************************************)
(* The two loops of SolveCollisions over particles[i], particles[j],       *)
(* i < j, from the pair (i, j) on.  refs names the particles for the log:  *)
(* a pool slot by its index, the k-th external particle by -k.             *)
(***************************************************************************)
RECURSIVE SolveFrom(_, _, _, _, _, _, _)
SolveFrom(ps, refs, log, i, j, frame, c) ==
    IF i >= Len(ps) THEN [ps |-> ps, log |-> log]
    ELSE IF j > Len(ps) THEN SolveFrom(ps, refs, log, i + 1, i + 2, frame, c)
    ELSE LET checked == Append(log, <<"check", refs[i], refs[j]>>)
         IN  IF CheckCollision(ps[i], ps[j], frame)
             THEN CHOOSE out \in
                     {SolveFrom(s.ps, refs, s.log, i, j + 1, frame, c) : s \in
                     {[ps |-> [ps EXCEPT ![i] = r[1], ![j] = r[2]],
                       log |-> Append(checked, <<"resolve", refs[i], refs[j]>>)] :
                         r \in
                     {ResolvePair(ps[i], ps[j], c)}}} : TRUE
             ELSE SolveFrom(ps, refs, checked, i, j + 1, frame, c)

SolveCollisions(ps, refs, log, frame, c) ==
    SolveFrom(ps, refs, log, 1, 2, frame, c)

\* particle.Update(Vector{}, frame, c, dt) for each particle, in order
UpdatePositions(ps, refs, log, frame, c, dt) ==
    [ps |-> [k \in 1 .. Len(ps) |-> ParticleUpdate(ps[k], 0, frame, c, dt)],
     log |-> log \o [k \in 1 .. Len(ps) |-> <<"integrate", refs[k]>>]]

(***************************************************************************)
(* Pool                                                                    *)
(***************************************************************************)
\* the zero time.Time, long before any time.Now()
ZeroTime == 0 - 1000

NewPool(n) ==
    [particles |-> [i \in 1 .. n |-> Nil],
     active |-> [i \in 1 .. n |-> FALSE],
     lifetimes |-> [i \in 1 .. n |-> ZeroTime],
     sprites |-> [i \in 1 .. n |-> 0],
     maxLifetime |-> 0,
     enforceLifetime |-> FALSE,
     fadeOverLifetime |-> FALSE,
     disableCollision |-> FALSE]

DisableCollision(p) == [p EXCEPT !.disableCollision = TRUE]

EnforceLifetime(p, lifetime) ==
    [p EXCEPT !.enforceLifetime = TRUE, !.maxLifetime = lifetime]

FadeOverLifetime(p) == [p EXCEPT !.fadeOverLifetime = TRUE]

\* appendNew that forgets the variant tag of the new slot
appendNew_NoSprite(p, pos, rap, angPos, angVel, mass, radius, sprite, now) ==
    [p EXCEPT !.active = Append(@, TRUE),
              !.lifetimes = Append(@, now),
              !.particles = Append(@, NewParticle(pos, rap, angPos, angVel,
                                                  mass, radius))]

\* appendNew that puts the new slot in front of the others
appendNew_InFront(p, pos, rap, angPos, angVel, mass, radius, sprite, now) ==
    [p EXCEPT !.active = <<TRUE>> \o @,
              !.lifetimes = <<now>> \o @,
              !.sprites = <<sprite>> \o @,
              !.particles = <<NewParticle(pos, rap, angPos, angVel,
                                          mass, radius)>> \o @]

appendNew(p, pos, rap, angPos, angVel, mass, radius, sprite, now) ==
    [p EXCEPT !.active = Append(@, TRUE),
              !.lifetimes = Append(@, now),
              !.sprites = Append(@, sprite),
              !.particles = Append(@, NewParticle(pos, rap, angPos, angVel,
                                                  mass, radius))]

\* the indices the search loop of Activate stops at: the inactive slots
InactiveSlots(p) == {i \in 1 .. Len(p.particles) : ~p.active[i]}

Min(S) == CHOOSE x \in S : \A y \in S : x <= y

\* Activate whose search runs from the last slot down
Activate_FromLast(p, pos, rap, angPos, angVel, mass, radius, sprite, now) ==
    IF InactiveSlots(p) # {}
    THEN LET i == CHOOSE x \in InactiveSlots(p) : \A y \in InactiveSlots(p) : x >= y
         IN  [p EXCEPT !.active[i] = TRUE,
                       !.lifetimes[i] = now,
                       !.sprites[i] = sprite,
                       !.particles[i] = NewParticle(pos, rap, angPos, angVel,
                                                    mass, radius)]
    ELSE appendNew(p, pos, rap, angPos, angVel, mass, radius, sprite, now)

Activate(p, pos, rap, angPos, angVel, mass, radius, sprite, now) ==
    IF InactiveSlots(p) # {}
    THEN LET i == Min(InactiveSlots(p))
         IN  [p EXCEPT !.active[i] = TRUE,
                       !.lifetimes[i] = now,
                       !.sprites[i] = sprite,
                       !.particles[i] = NewParticle(pos, rap, angPos, angVel,
                                                    mass, radius)]
    ELSE appendNew(p, pos, rap, angPos, angVel, mass, radius, sprite, now)

\* Deactivate that reports success whatever the slot held
Deactivate_AlwaysTrue(p, i) ==
    [pool |-> [p EXCEPT !.active[i] = FALSE, !.particles[i] = Nil], ok |-> TRUE]

\* the pool after Deactivate(i), and the value it returns
Deactivate(p, i) ==
    IF p.active[i]
    THEN [pool |-> [p EXCEPT !.active[i] = FALSE, !.particles[i] = Nil],
          ok |-> TRUE]
    ELSE [pool |-> p, ok |-> FALSE]

\* the first loop with the test time.Since(t0) >= maxLifetime
RECURSIVE SelectActive_AtLeast(_, _, _, _)
SelectActive_AtLeast(p, i, refs, now) ==
    IF i > Len(p.particles) THEN [pool |-> p, refs |-> refs]
    ELSE IF p.enforceLifetime /\ p.active[i] /\ now - p.lifetimes[i] >= p.maxLifetime
         THEN SelectActive_AtLeast(Deactivate(p, i).pool, i + 1, refs, now)
         ELSE IF p.active[i]
              THEN SelectActive_AtLeast(p, i + 1, Append(refs, i), now)
              ELSE SelectActive_AtLeast(p, i + 1, refs, now)

(***************************************************************************)
(* The first loop of Update and UpdateWith from slot i on: expired slots   *)
(* are deactivated and skipped, the active ones are collected.             *)
(***************************************************************************)
RECURSIVE SelectActive(_, _, _, _)
SelectActive(p, i, refs, now) ==
    IF i > Len(p.particles) THEN [pool |-> p, refs |-> refs]
    ELSE IF p.enforceLifetime /\ p.active[i] /\ now - p.lifetimes[i] > p.maxLifetime
         THEN CHOOSE out \in
                 {SelectActive(q, i + 1, refs, now) : q \in
                 {Deactivate(p, i).pool}} : TRUE
         ELSE IF p.active[i]
              THEN SelectActive(p, i + 1, Append(refs, i), now)
              ELSE SelectActive(p, i + 1, refs, now)

\* activeParticles: the particles of the selected slots, in slot order
ActiveParticles(sel) ==
    [k \in 1 .. Len(sel.refs) |-> sel.pool.particles[sel.refs[k]]]

\* the slots of the selection, then -1, -2, ... for the particles appended
AllRefs(sel, particles) ==
    sel.refs \o [k \in 1 .. Len(particles) |-> 0 - k]

\* the particles of the selected slots written back to the pool
WriteBack(p, refs, ps) ==
    [p EXCEPT !.particles =
        [i \in 1 .. Len(p.particles) |->
            IF \E k \in 1 .. Len(refs) : refs[k] = i
            THEN ps[CHOOSE k \in 1 .. Len(refs) : refs[k] = i]
            ELSE p.particles[i]]]

\* Update that solves the collisions before it integrates
PoolUpdate_SolveFirst(p, frame, c, dt, now) ==
    LET sel == SelectActive(p, 1, <<>>, now)
        activeParticles == ActiveParticles(sel)
        solved == IF ~p.disableCollision
                  THEN SolveCollisions(activeParticles, sel.refs, <<>>, frame, c)
                  ELSE [ps |-> activeParticles, log |-> <<>>]
        moved == UpdatePositions(solved.ps, sel.refs, solved.log, frame, c, dt)
    IN  [pool |-> WriteBack(sel.pool, sel.refs, moved.ps), log |-> moved.log]

(***************************************************************************)
(* Update: the pool afterwards and the log of what was done to which       *)
(* particle.  The statements are read from the innermost set outwards:     *)
(* the selection, then UpdatePositions, then SolveCollisions.              *)
(***************************************************************************)
PoolUpdate(p, frame, c, dt, now) ==
    CHOOSE out \in
        {[pool |-> WriteBack(s.sel.pool, s.sel.refs, s.solved.ps),
          log |-> s.solved.log] : s \in
        {[sel |-> m.sel,
          solved |-> IF ~p.disableCollision
                     THEN SolveCollisions(m.moved.ps, m.sel.refs, m.moved.log,
                                          frame, c)
                     ELSE m.moved] : m \in
        {[sel |-> sel,
          moved |-> UpdatePositions(ActiveParticles(sel), sel.refs, <<>>,
                                    frame, c, dt)] : sel \in
        {SelectActive(p, 1, <<>>, now)}}}} : TRUE

\* UpdateWith that appends the external particles before it integrates
PoolUpdateWith_IntegratesAll(p, frame, c, dt, particles, now) ==
    LET sel == SelectActive(p, 1, <<>>, now)
        activeParticles == ActiveParticles(sel)
        n == Len(sel.refs)
        allRefs == AllRefs(sel, particles)
        moved == UpdatePositions(activeParticles \o particles, allRefs, <<>>,
                                 frame, c, dt)
        solved == IF ~p.disableCollision
                  THEN SolveCollisions(moved.ps, allRefs, moved.log, frame, c)
                  ELSE moved
    IN  [pool |-> WriteBack(sel.pool, sel.refs, SubSeq(solved.ps, 1, n)),
         particles |-> SubSeq(solved.ps, n + 1, n + Len(particles)),
         log |-> solved.log]

(***************************************************************************)
(* UpdateWith: the pool and the external particles afterwards, and the     *)
(* log.  Read from the innermost set outwards: the selection, then         *)
(* UpdatePositions, then the append and SolveCollisions.                   *)
(***************************************************************************)
PoolUpdateWith(p, frame, c, dt, particles, now) ==
    CHOOSE out \in
        {[pool |-> WriteBack(s.sel.pool, s.sel.refs,
                             SubSeq(s.solved.ps, 1, Len(s.sel.refs))),
          particles |-> SubSeq(s.solved.ps, Len(s.sel.refs) + 1,
                               Len(s.sel.refs) + Len(particles)),
          log |-> s.solved.log] : s \in
        {[sel |-> m.sel,
          solved |-> IF ~p.disableCollision
                     THEN SolveCollisions(m.moved.ps \o particles,
                                          AllRefs(m.sel, particles),
                                          m.moved.log, frame, c)
                     ELSE [ps |-> m.moved.ps \o particles,
                           log |-> m.moved.log]] : m \in
        {[sel |-> sel,
          moved |-> UpdatePositions(ActiveParticles(sel), sel.refs, <<>>,
                                    frame, c, dt)] : sel \in
        {SelectActive(p, 1, <<>>, now)}}}} : TRUE

\* the loops of PoolCollisions with the outer one stopping a slot early
RECURSIVE CollectPairs_SkipLast(_, _, _, _, _, _)
CollectPairs_SkipLast(p, other, frame, i, j, out) ==
    IF i >= Len(p.particles) THEN out
    ELSE IF ~p.active[i] \/ j > Len(other.particles)
         THEN CollectPairs_SkipLast(p, other, frame, i + 1, 1, out)
         ELSE IF other.active[j]
                 /\ CheckCollision(p.particles[i], other.particles[j], frame)
              THEN CollectPairs_SkipLast(p, other, frame, i, j + 1,
                                         Append(out, <<i, j>>))
              ELSE CollectPairs_SkipLast(p, other, frame, i, j + 1, out)

\* PoolCollisions: the pairs <<i, j>> in the order of the two loops, from (i, j) on
RECURSIVE CollectPairs(_, _, _, _, _, _)
CollectPairs(p, other, frame, i, j, out) ==
    IF i > Len(p.particles) THEN out
    ELSE IF ~p.active[i] \/ j > Len(other.particles)
         THEN CollectPairs(p, other, frame, i + 1, 1, out)
         ELSE IF other.active[j]
                 /\ CheckCollision(p.particles[i], other.particles[j], frame)
              THEN CollectPairs(p, other, frame, i, j + 1, Append(out, <<i, j>>))
              ELSE CollectPairs(p, other, frame, i, j + 1, out)

PoolCollisions(p, other, frame) == CollectPairs(p, other, frame, 1, 1, <<>>)

\* Collisions: the indices in the order of the loop, from i on
RECURSIVE CollectHits(_, _, _, _, _)
CollectHits(p, particle, frame, i, out) ==
    IF i > Len(p.particles) THEN out
    ELSE IF p.active[i] /\ CheckCollision(p.particles[i], particle, frame)
         THEN CollectHits(p, particle, frame, i + 1, Append(out, i))
         ELSE CollectHits(p, particle, frame, i + 1, out)

Collisions(p, particle, frame) == CollectHits(p, particle, frame, 1, <<>>)

\* math.MaxFloat64: the largest finite value
MaxFloat64 == PInf - 1

\* the loop of Closest from slot i on
RECURSIVE ClosestFrom(_, _, _, _, _)
ClosestFrom(p, pos, i, cPos, minSqrDist) ==
    IF i > Len(p.particles) THEN cPos
    ELSE IF p.active[i]
         THEN LET sqrDist == SqrDist(p.particles[i].Pos, pos)
              IN  IF FLt(sqrDist, minSqrDist)
                  THEN ClosestFrom(p, pos, i + 1, p.particles[i].Pos, sqrDist)
                  ELSE ClosestFrom(p, pos, i + 1, cPos, minSqrDist)
         ELSE ClosestFrom(p, pos, i + 1, cPos, minSqrDist)

Closest(p, pos) == ClosestFrom(p, pos, 1, 0, MaxFloat64)

\* Reset that builds the pool anew
Reset_Fresh(p) == NewPool(Len(p.particles))

Reset(p) ==
    [p EXCEPT !.particles = [i \in 1 .. Len(p.particles) |->
                                IF p.active[i] THEN Nil ELSE p.particles[i]],
              !.lifetimes = [i \in 1 .. Len(p.particles) |->
                                IF p.active[i] THEN ZeroTime ELSE p.lifetimes[i]],
              !.sprites = [i \in 1 .. Len(p.particles) |->
                                IF p.active[i] THEN 0 ELSE p.sprites[i]],
              !.active = [i \in 1 .. Len(p.particles) |-> FALSE]]

(***************************************************************************)
(* newAsteroidPool(n, area).  The random draws are the argument: draw[i]   *)
(* holds small (rand.Int63n(5) < 2), pos, rap, angPos, angVel and radius   *)
(* of asteroid i.                                                          *)
(***************************************************************************)
\* math.Pi * math.Pow(radius, 2), the radius in tenths
MassOf(radius) == TDiv(314 * radius * radius, 10000)

newAsteroidPool(n, draw) ==
    [NewPool(n) EXCEPT
        !.particles = [i \in 1 .. n |->
            NewParticle(draw[i].pos, draw[i].rap, draw[i].angPos, draw[i].angVel,
                        MassOf(draw[i].radius), draw[i].radius)],
        !.sprites = [i \in 1 .. n |-> IF draw[i].small THEN 1 ELSE 0],
        !.active = [i \in 1 .. n |-> TRUE]]

(***************************************************************************)
(* Game.  One tick is 1 / TicksPerSecond seconds, so a speed of s units    *)
(* per second is 10 * s / TicksPerSecond tenths per tick and a duration of *)
(* s seconds is s * TicksPerSecond ticks.  The axis of the model is the    *)
(* direction the ship points in when a game starts (-y, AngPos = 0).       *)
(* Angles are in steps of 0.05 rad, the angle one tick of the A or D key   *)
(* turns the ship by; AngPos is in 1/Res steps.                            *)
(***************************************************************************)
Seconds(n) == n * TicksPerSecond

\* a speed, given in tenths of a unit per second, per tick
PerTick(x) == TDiv(x, TicksPerSecond)

\* 10 * cos(0.05 * k), k = 0 .. 31 (a quarter turn), rounded toward zero
CosTable ==
    <<10, 9, 9, 9, 9, 9, 9, 9, 9, 9, 8, 8, 8, 7, 7, 7,
      6, 6, 6, 5, 5, 4, 4, 4, 3, 3, 2, 2, 1, 1, 0, 0>>

\* 10 * cos of an angle of a steps; a turn is 126 steps
CosTenths(a) ==
    LET k == Abs(a) % 126
    IN  IF k <= 31 THEN CosTable[k + 1]
        ELSE IF k <= 63 THEN 0 - CosTable[63 - k + 1]
        ELSE IF k <= 94 THEN 0 - CosTable[k - 63 + 1]
        ELSE CosTable[126 - k + 1]

\* 10 * sin(2 * pi * k / 48), k = 0 .. 47, rounded toward zero
SinTable ==
    <<0, 1, 2, 3, 5, 6, 7, 7, 8, 9, 9, 9, 10, 9, 9, 9, 8, 7, 7, 6, 5, 3, 2, 1,
      0, -1, -2, -3, -5, -6, -7, -7, -8, -9, -9, -9, -10, -9, -9, -9, -8, -7,
      -7, -6, -5, -3, -2, -1>>

\* Vector{1, 0}.Rotate(i * 2 * pi / n) along the axis, in tenths (n divides 48)
Rotate(i, n) == 0 - SinTable[(48 * i) \div n + 1]

\* (sin(AngPos), -cos(AngPos)) along the axis, in tenths
Heading(p) == IF IsFinite(p.AngPos) THEN CosTenths(TDiv(p.AngPos, Res)) ELSE NaN

\* getDrag(v, k) with k = 0.1: v.SetMag(-k * v.SqrMag())
getDrag(v) == SetMag(v, FNeg(Scaled(FMul(v, v), 100)))

mapRange(v, minIn, maxIn, minOut, maxOut) ==
    TDiv((v - minIn) * (maxOut - minOut), maxIn - minIn) + minOut

\* the Game after Init
NewGame ==
    [c |-> LightSpeed, thrusting |-> FALSE, health |-> 0, ammo |-> 0,
     score |-> 0, highScore |-> 0, newHighScore |-> FALSE, mainMenu |-> TRUE,
     gameOver |-> FALSE, bgScroll |-> 0, screenStart |-> 0, gameEnd |-> FALSE,
     gameEndTime |-> ZeroTime, cLerpInitial |-> 0, cLerpTarget |-> 0,
     cLerpStart |-> ZeroTime, cLerpTime |-> Seconds(2), cLerp |-> FALSE,
     invincibilityStart |-> ZeroTime, invincibilityDuration |-> Seconds(1),
     invincibility |-> FALSE, clock |-> 0]

beginCLerp(g, c, now) ==
    [g EXCEPT !.cLerpInitial = g.c, !.cLerpTarget = c, !.cLerpStart = now,
              !.cLerp = TRUE]

\* new(Particle) with Mass = 1 and Radius = 1
NewShip ==
    [Pos |-> 0, Rap |-> 0, Vel |-> 0, Acc |-> 0, AngPos |-> 0, AngVel |-> 0,
     Mass |-> 1, Radius |-> 10, Gamma |-> 0, Clock |-> 0]

\* startGame: st is the game, the pools, the ship, the hits of the tick and
\* whether the program has panicked; draw holds the random draws
startGame(st, draw, now) ==
    [st EXCEPT
        !.g = [@ EXCEPT !.c = LightSpeed, !.health = 3, !.score = 0,
                        !.ammo = 10, !.newHighScore = FALSE,
                        !.mainMenu = FALSE, !.gameOver = FALSE,
                        !.screenStart = now],
        !.ship = NewShip,
        !.pools = [asteroids |-> newAsteroidPool(AsteroidCount, draw),
                   bullets |-> DisableCollision(EnforceLifetime(
                                   NewPool(BulletSlots), Seconds(10))),
                   explosion |-> DisableCollision(FadeOverLifetime(
                                   EnforceLifetime(NewPool(ExplosionSlots),
                                                   Seconds(1))))]]

endGame(g, now) ==
    [g EXCEPT !.highScore = IF g.score > g.highScore THEN g.score ELSE @,
              !.newHighScore = IF g.score > g.highScore THEN TRUE ELSE @,
              !.gameEnd = TRUE,
              !.gameEndTime = now]

PoolIds == {"asteroids", "bullets", "explosion"}

\* explode: the activations i, i + 1, ... of the n = 16; rnd holds the
\* random draws
RECURSIVE ExplodeFrom(_, _, _, _, _)
ExplodeFrom(pool, target, i, rnd, now) ==
    IF i >= 16 THEN pool
    ELSE CHOOSE out \in
            {ExplodeFrom(next, target, i + 1, rnd, now) : next \in
            {Activate(pool,
                      FAdd(target.Pos, TDiv(2 * Rotate(i, 16), 10)),
                      FAdd(target.Rap, PerTick(TDiv(5 * Rotate(i, 16), 10))),
                      rnd.angPos, rnd.angVel, MassOf(rnd.radius), rnd.radius,
                      0, now)}} : TRUE

explode(pool, target, rnd, now) == ExplodeFrom(pool, target, 0, rnd, now)

\* the three small asteroids put in the place of parent, from the i-th on
RECURSIVE SplitFrom(_, _, _, _, _)
SplitFrom(asteroids, parent, i, rnd, now) ==
    IF i >= 3 THEN asteroids
    ELSE CHOOSE out \in
            {SplitFrom(next, parent, i + 1, rnd, now) : next \in
            {Activate(asteroids,
                      FAdd(parent.Pos, TDiv(2 * Rotate(i, 3), 10)),
                      FAdd(parent.Rap, PerTick(TDiv(Rotate(i, 3), 10))),
                      rnd.angPos, rnd.angVel, MassOf(rnd.radius), rnd.radius,
                      1, now)}} : TRUE

\* the pair handled with the asteroid deactivated before it is split
HitPair_DeactivateFirst(st, pr, rnd, now) ==
    LET i == pr[1]
        j == pr[2]
        bullets == Deactivate(st.pools.bullets, i).pool
        asteroids == st.pools.asteroids
        big == asteroids.sprites[j] = 0
        parent == asteroids.particles[j]
    IN  IF parent = Nil
        THEN [st EXCEPT !.pools.bullets = bullets, !.panicked = TRUE]
        ELSE LET gone == Deactivate(asteroids, j).pool
                 split == IF big THEN SplitFrom(gone, parent, 0, rnd, now)
                          ELSE gone
                 won == IF big THEN 3 ELSE 1
                 g1 == [st.g EXCEPT !.score = @ + won, !.ammo = @ + won]
             IN  [st EXCEPT
                    !.pools = [asteroids |-> split,
                               bullets |-> bullets,
                               explosion |-> explode(st.pools.explosion, parent,
                                                     rnd, now)],
                    !.g = beginCLerp(g1, TDiv(g1.c, 8) + PerTick(100), now),
                    !.log = Append(@, [bullet |-> i, asteroid |-> j,
                                       before |-> asteroids, after |-> split,
                                       bullets |-> bullets,
                                       score |-> g1.score - st.g.score,
                                       ammo |-> g1.ammo - st.g.ammo])]

\* the body of the loop over the pairs of bullets.PoolCollisions(asteroids):
\* a nil particle dereferenced (parent.Pos, or target.Pos in explode) ends
\* the program where it stands
HitPair(st, pr, rnd, now) ==
    LET i == pr[1]
        j == pr[2]
        bullets == Deactivate(st.pools.bullets, i).pool
        asteroids == st.pools.asteroids
        big == asteroids.sprites[j] = 0
        parent == asteroids.particles[j]
        won == IF big THEN 3 ELSE 1
        g1 == [st.g EXCEPT !.score = @ + won, !.ammo = @ + won]
    IN  IF big /\ parent = Nil
        THEN [st EXCEPT !.pools.bullets = bullets, !.panicked = TRUE]
        ELSE CHOOSE out \in
                {IF split.particles[j] = Nil
                 THEN [st EXCEPT !.pools.bullets = bullets,
                                 !.pools.asteroids = split,
                                 !.g = g1,
                                 !.panicked = TRUE]
                 ELSE LET after == Deactivate(split, j).pool
                      IN  [st EXCEPT
                             !.pools = [asteroids |-> after,
                                        bullets |-> bullets,
                                        explosion |->
                                            explode(st.pools.explosion,
                                                    split.particles[j], rnd, now)],
                             !.g = beginCLerp(g1, TDiv(g1.c, 8) + PerTick(100), now),
                             !.log = Append(@, [bullet |-> i, asteroid |-> j,
                                                before |-> asteroids,
                                                after |-> after,
                                                bullets |-> bullets,
                                                score |-> g1.score - st.g.score,
                                                ammo |-> g1.ammo - st.g.ammo])] :
                    split \in
                {IF big THEN SplitFrom(asteroids, parent, 0, rnd, now)
                 ELSE asteroids}} : TRUE

\* the loop over the pairs, from the k-th on
RECURSIVE HitPairs(_, _, _, _, _)
HitPairs(st, pairs, k, rnd, now) ==
    IF k > Len(pairs) \/ st.panicked THEN st
    ELSE CHOOSE out \in
            {HitPairs(next, pairs, k + 1, rnd, now) : next \in
            {HitPair(st, pairs[k], rnd, now)}} : TRUE

\* gameUpdate, the keys: Escape ends the game, W thrusts, A and D turn the
\* ship, Space (just pressed) shoots; then the ship is integrated
Steered(st, keys, now) ==
    LET g0 == IF "Escape" \in keys THEN endGame(st.g, now) ELSE st.g
        thrust == IF "W" \in keys THEN Heading(st.ship) ELSE 0
        g1 == [g0 EXCEPT !.thrusting = "W" \in keys]
        ship1 == IF "A" \in keys THEN [st.ship EXCEPT !.AngPos = FSub(@, Res)]
                 ELSE IF "D" \in keys THEN [st.ship EXCEPT !.AngPos = FAdd(@, Res)]
                 ELSE st.ship
        shoot == "Space" \in keys /\ g1.ammo > 0
        force == FAdd(TDiv(10 * thrust, TicksPerSecond * TicksPerSecond),
                      getDrag(ship1.Vel))
    IN  [st EXCEPT
           !.g = IF shoot THEN [g1 EXCEPT !.ammo = @ - 1] ELSE g1,
           !.pools.bullets =
               IF shoot
               THEN Activate(@, ship1.Pos,
                             FAdd(ship1.Rap, PerTick(3 * Heading(ship1))),
                             0, PerTick(20), 1, 10, 0, now)
               ELSE @,
           !.ship = ParticleUpdate(ship1, force, ship1.Vel, g1.c, 1)]

\* gameUpdate, the ship against the asteroids: a hit costs a health point
\* and starts the invincibility; rnd holds the random draws
Struck(st, rnd, now) ==
    IF Len(Collisions(st.pools.asteroids, st.ship, st.ship.Vel)) > 0
       /\ ~st.g.invincibility
    THEN [st EXCEPT !.g = [@ EXCEPT !.invincibility = TRUE,
                                    !.invincibilityStart = now,
                                    !.health = @ - 1],
                    !.ship = [@ EXCEPT !.AngVel =
                                 FAdd(@, rnd.spin * PerTick(200))]]
    ELSE st

\* gameUpdate, the end of the invincibility
Recovered(st, now) ==
    IF now - st.g.invincibilityStart > st.g.invincibilityDuration
       /\ st.g.invincibility
    THEN [st EXCEPT !.g = [@ EXCEPT !.invincibility = FALSE],
                    !.ship = [@ EXCEPT !.AngVel = 0]]
    ELSE st

\* gameUpdate, out of health or ammunition: the ship explodes, the game ends
Wrecked(st, rnd, now) ==
    IF st.g.health <= 0 \/ st.g.ammo <= 0
    THEN [st EXCEPT !.pools.explosion = explode(@, st.ship, rnd, now),
                    !.g = endGame(@, now)]
    ELSE st

\* gameUpdate, the pools: asteroids.UpdateWith(ship), bullets.Update and
\* explosion.Update in the frame of the ship
Moved(st, now) ==
    CHOOSE out \in
        {[st EXCEPT
            !.ship = with.particles[1],
            !.pools = [asteroids |-> with.pool,
                       bullets |-> PoolUpdate(st.pools.bullets,
                                              with.particles[1].Vel,
                                              st.g.c, 1, now).pool,
                       explosion |-> PoolUpdate(st.pools.explosion,
                                                with.particles[1].Vel,
                                                st.g.c, 1, now).pool]] : with \in
        {PoolUpdateWith(st.pools.asteroids, st.ship.Vel, st.g.c, 1,
                        <<st.ship>>, now)}} : TRUE

\* gameUpdate, bullets.PoolCollisions(asteroids): the pairs to handle, and
\* the pools as they are before the first pair is handled
Paired(st) ==
    [st EXCEPT !.pairs = PoolCollisions(st.pools.bullets, st.pools.asteroids,
                                        st.ship.Vel),
               !.moved = st.pools,
               !.log = <<>>,
               !.panicked = FALSE]

\* gameUpdate, the ramp of the speed of light and the clock of the ship
\* the ramp without its end
Ramped_NoEnd(st, now) ==
    LET since == now - st.g.cLerpStart
        c == IF ~st.g.cLerp THEN st.g.c
             ELSE mapRange(since, 0, st.g.cLerpTime, st.g.cLerpInitial,
                           st.g.cLerpTarget)
    IN  IF st.panicked THEN st
        ELSE [st EXCEPT
                !.g = [@ EXCEPT !.c = c,
                                !.clock = FAdd(@, Gamma(Mag(st.ship.Vel), c))]]

Ramped(st, now) ==
    LET since == now - st.g.cLerpStart
        c == IF ~st.g.cLerp THEN st.g.c
             ELSE IF since > st.g.cLerpTime THEN st.g.cLerpTarget
             ELSE mapRange(since, 0, st.g.cLerpTime, st.g.cLerpInitial,
                           st.g.cLerpTarget)
    IN  IF st.panicked THEN st
        ELSE [st EXCEPT
                !.g = [@ EXCEPT !.c = c,
                                !.cLerp = @ /\ ~(since > st.g.cLerpTime),
                                !.clock = FAdd(@, Gamma(Mag(st.ship.Vel), c))]]

(***************************************************************************)
(* gameUpdate while the game is played: keys are the keys pressed, rnd the *)
(* random draws.  The statements are read from the innermost set outwards. *)
(***************************************************************************)
play(st, keys, rnd, now) ==
    CHOOSE out \in
        {Ramped(handled, now) : handled \in
        {HitPairs(paired, paired.pairs, 1, rnd, now) : paired \in
        {Paired(moved) : moved \in
        {Moved(wrecked, now) : wrecked \in
        {Wrecked(recovered, rnd, now) : recovered \in
        {Recovered(struck, now) : struck \in
        {Struck(steered, rnd, now) : steered \in
        {Steered(st, keys, now)}}}}}}}} : TRUE

\* gameUpdate
gameUpdate(st, keys, rnd, now) ==
    LET quiet == [st EXCEPT !.log = <<>>, !.pairs = <<>>, !.moved = st.pools]
    IN  IF now - st.g.gameEndTime > Seconds(5) /\ st.g.gameEnd
        THEN [quiet EXCEPT !.g = [@ EXCEPT !.gameEnd = FALSE, !.gameOver = TRUE,
                                           !.screenStart = now]]
        ELSE IF st.g.gameEnd
        THEN [quiet EXCEPT !.pools =
                 [id \in PoolIds |->
                     PoolUpdate(st.pools[id], st.ship.Vel, st.g.c, 1, now).pool]]
        ELSE play(st, keys, rnd, now)

\* mainMenuUpdate; draw holds the random draws of newAsteroidPool
mainMenuUpdate(st, keys, draw, now) ==
    LET started == IF "Space" \in keys THEN startGame(st, draw, now) ELSE st
    IN  [started EXCEPT !.g = [@ EXCEPT !.bgScroll = @ - PerTick(100)]]

\* gameOverUpdate that leaves the game-over flag set
gameOverUpdate_KeepsFlag(st, keys, now) ==
    LET left == IF "Space" \in keys
                THEN [st EXCEPT !.g = [@ EXCEPT !.mainMenu = TRUE,
                                                !.screenStart = now]]
                ELSE st
    IN  [left EXCEPT !.g = [@ EXCEPT !.bgScroll = @ - PerTick(100)]]

gameOverUpdate(st, keys, now) ==
    LET left == IF "Space" \in keys
                THEN [st EXCEPT !.g = [@ EXCEPT !.gameOver = FALSE,
                                                !.mainMenu = TRUE,
                                                !.screenStart = now]]
                ELSE st
    IN  [left EXCEPT !.g = [@ EXCEPT !.bgScroll = @ - PerTick(100)]]

(***************************************************************************)
(* State                                                                   *)
(***************************************************************************)
VARIABLES
    pools,      \* g.asteroids, g.bullets, g.explosion: the three pools
    ship,       \* g.ship, the particle handed to UpdateWith and Collisions
    now,        \* time.Now(), in ticks
    ret,        \* the last call: its name, receiver, arguments and result,
                \* and the receiver as it was before the call
    log,        \* what the last Update or UpdateWith did, in order
    ops,        \* calls made so far that change a pool or the time
    target,     \* the pool the calls are made on
    g,          \* the Game: its fields other than the pools and the ship
    panicked    \* the program has ended in a run-time panic

vars == <<pools, ship, now, ret, log, ops, target, g, panicked>>

(***************************************************************************)
(* Inputs of the calls                                                     *)
(***************************************************************************)
Cs == {4}                   \* speed of light
Frames == {0 - 1, 0}        \* velocity of the reference frame
Positions == {0, 2}            \* the argument of Closest
Lifetimes == {0, 1}         \* the argument of EnforceLifetime, in ticks
PoolSizes == {1}            \* the argument of NewPool and newAsteroidPool

BigDraw ==
    [small |-> FALSE, pos |-> 0, rap |-> 4, angPos |-> 0, angVel |-> 1,
     radius |-> 10]

SmallDraw ==
    [small |-> TRUE, pos |-> 4, rap |-> 0 - 2, angPos |-> 0, angVel |-> 1,
     radius |-> 7]

AsteroidDraws == {BigDraw, SmallDraw}

\* the arguments of Activate: pos, rap, angPos, angVel, mass, radius, sprite
ActivateArgs ==
    {[pos |-> 0, rap |-> 4, angPos |-> 0, angVel |-> 1, mass |-> 1,
      radius |-> 10, sprite |-> 0],
     [pos |-> 7, rap |-> 0 - 2, angPos |-> 0, angVel |-> 1, mass |-> 3,
      radius |-> 10, sprite |-> 1]}

\* a ship that was updated once: at rest and turning, Gamma = 1
InitShip ==
    [NewParticle(2, 0, 0, 1, 1, 10) EXCEPT !.Clock = Res]

Idle == [op |-> "none"]

(***************************************************************************)
(* The pool interface, called in any order on one pool: the asteroids      *)
(* (collisions on, no lifetime) or the bullets (lifetime on, built with    *)
(* or without DisableCollision).  The other of the two is the argument of  *)
(* PoolCollisions.                                                         *)
(***************************************************************************)
Other(id) == IF id = "asteroids" THEN "bullets" ELSE "asteroids"

\* the pool under test in each of its configurations, the other pool as the
\* game builds it
Configs ==
    {[target |-> "asteroids", draw |-> d, life |-> 1, dis |-> TRUE] :
        d \in AsteroidDraws}
    \cup
    {[target |-> "bullets", draw |-> BigDraw, life |-> l, dis |-> b] :
        l \in Lifetimes, b \in BOOLEAN}

Init ==
    /\ \E n \in PoolSizes, m \in PoolSizes, cfg \in Configs :
          /\ pools = [asteroids |-> newAsteroidPool(n, [k \in 1 .. n |-> cfg.draw]),
                      bullets |-> IF cfg.dis
                                  THEN DisableCollision(
                                           EnforceLifetime(NewPool(m), cfg.life))
                                  ELSE EnforceLifetime(NewPool(m), cfg.life),
                      explosion |-> DisableCollision(FadeOverLifetime(
                                        EnforceLifetime(NewPool(0), cfg.life)))]
          /\ target = cfg.target
    /\ ship = InitShip
    /\ now = 0
    /\ ret = Idle
    /\ log = <<>>
    /\ ops = 0
    /\ g = NewGame
    /\ panicked = FALSE

CallActivate(id, a) ==
    /\ ops < MaxOps
    /\ pools' = [pools EXCEPT ![id] =
                    Activate(@, a.pos, a.rap, a.angPos, a.angVel, a.mass,
                             a.radius, a.sprite, now)]
    /\ ret' = [op |-> "Activate", id |-> id, args |-> a, before |-> pools[id]]
    /\ ops' = ops + 1
    /\ UNCHANGED <<ship, now, log, target, g, panicked>>

CallDeactivate(id, i) ==
    /\ ops < MaxOps
    /\ i \in 1 .. Len(pools[id].particles)
    /\ pools' = [pools EXCEPT ![id] = Deactivate(@, i).pool]
    /\ ret' = [op |-> "Deactivate", id |-> id, i |-> i, before |-> pools[id],
               val |-> Deactivate(pools[id], i).ok]
    /\ ops' = ops + 1
    /\ UNCHANGED <<ship, now, log, target, g, panicked>>

CallUpdate(id, frame, c) ==
    /\ ops < MaxOps
    /\ LET r == PoolUpdate(pools[id], frame, c, 1, now)
       IN  /\ pools' = [pools EXCEPT ![id] = r.pool]
           /\ log' = r.log
    /\ ret' = [op |-> "Update", id |-> id, frame |-> frame, c |-> c,
               before |-> pools[id]]
    /\ ops' = ops + 1
    /\ UNCHANGED <<ship, now, target, g, panicked>>

CallUpdateWith(id, frame, c) ==
    /\ ops < MaxOps
    /\ LET r == PoolUpdateWith(pools[id], frame, c, 1, <<ship>>, now)
       IN  /\ pools' = [pools EXCEPT ![id] = r.pool]
           /\ ship' = r.particles[1]
           /\ log' = r.log
    /\ ret' = [op |-> "UpdateWith", id |-> id, frame |-> frame, c |-> c,
               before |-> pools[id], ship |-> ship]
    /\ ops' = ops + 1
    /\ UNCHANGED <<now, target, g, panicked>>

CallReset(id) ==
    /\ ops < MaxOps
    /\ pools' = [pools EXCEPT ![id] = Reset(@)]
    /\ ret' = [op |-> "Reset", id |-> id, before |-> pools[id]]
    /\ ops' = ops + 1
    /\ UNCHANGED <<ship, now, log, target, g, panicked>>

CallPoolCollisions(id, other, frame) ==
    /\ ret' = [op |-> "PoolCollisions", id |-> id, other |-> other,
               frame |-> frame, before |-> pools, ship |-> ship,
               val |-> PoolCollisions(pools[id], pools[other], frame)]
    /\ UNCHANGED <<pools, ship, now, log, ops, target, g, panicked>>

CallCollisions(id, frame) ==
    /\ ret' = [op |-> "Collisions", id |-> id, frame |-> frame,
               before |-> pools, ship |-> ship,
               val |-> Collisions(pools[id], ship, frame)]
    /\ UNCHANGED <<pools, ship, now, log, ops, target, g, panicked>>

CallClosest(id, pos) ==
    /\ ret' = [op |-> "Closest", id |-> id, pos |-> pos,
               before |-> pools, ship |-> ship,
               val |-> Closest(pools[id], pos)]
    /\ UNCHANGED <<pools, ship, now, log, ops, target, g, panicked>>

\* the wall clock moves on between two calls
AdvanceTime ==
    /\ ops < MaxOps
    /\ now' = now + 1
    /\ ops' = ops + 1
    /\ ret' = [op |-> "AdvanceTime"]
    /\ UNCHANGED <<pools, ship, log, target, g, panicked>>

Next ==
    \/ \E a \in ActivateArgs : CallActivate(target, a)
    \/ \E i \in 1 .. Len(pools[target].particles) : CallDeactivate(target, i)
    \/ \E frame \in Frames, c \in Cs : CallUpdate(target, frame, c)
    \/ \E frame \in Frames, c \in Cs : CallUpdateWith(target, frame, c)
    \/ CallReset(target)
    \/ AdvanceTime

Spec == Init /\ [][Next]_vars

\* the same calls, and the three queries
QueryNext ==
    \/ ops < QueryOps /\ Next
    \/ \E frame \in Frames : CallPoolCollisions(target, Other(target), frame)
    \/ \E frame \in Frames : CallCollisions(target, frame)
    \/ \E pos \in Positions : CallClosest(target, pos)

QuerySpec == Init /\ [][QueryNext]_vars

(***************************************************************************)
(* Particle.Update called on one particle, the ship, with a force          *)
(***************************************************************************)
Forces == {0 - 4, 0, 4}

CallParticleUpdate(force, frame, c) ==
    /\ ops < MaxOps
    /\ ship' = ParticleUpdate(ship, force, frame, c, 1)
    /\ ret' = [op |-> "ParticleUpdate", force |-> force, frame |-> frame,
               c |-> c, before |-> ship]
    /\ ops' = ops + 1
    /\ UNCHANGED <<pools, now, log, target, g, panicked>>

ParticleNext ==
    \E force \in Forces, frame \in Frames, c \in Cs :
        CallParticleUpdate(force, frame, c)

ParticleSpec == Init /\ [][ParticleNext]_vars

(***************************************************************************)
(* The game: Game.Update is called tick after tick, with the keys that are *)
(* pressed, the wall-clock time that has passed since the last call and    *)
(* the random draws as inputs.  In these behaviours log holds the pairs    *)
(* the last gameUpdate handled to the end of the loop body, each with the  *)
(* asteroid pool before and after it, the bullet pool after it and what it *)
(* added to score and ammo, and ret the pairs PoolCollisions returned and  *)
(* the pools as they were then.                                            *)
(***************************************************************************)
Keys == {{}, {"W"}, {"Space"}, {"Escape"}}

\* ticks of wall-clock time between two calls: one, or, while the game
\* waits for its end screen, a stall of more than five seconds
Elapsed == IF g.gameEnd THEN {1, Seconds(5) + 1} ELSE {1}

Rnds == {[spin |-> sp, radius |-> 7, angPos |-> 0, angVel |-> 1] :
            sp \in {0 - 1, 1}}

\* the draws of newAsteroidPool for one asteroid
Drawn(small, pos, rap) ==
    [small |-> small, pos |-> pos, rap |-> rap, angPos |-> 0, angVel |-> 1,
     radius |-> IF small THEN 7 ELSE 20]

\* the draws of newAsteroidPool: two large asteroids on either side of the
\* ship; a large one ahead of it and a small one behind; a small one ahead
\* and a large one far off.  Further asteroids are small and far off.
GameDraws ==
    {[i \in 1 .. AsteroidCount |->
         IF i <= 2 THEN d[i] ELSE Drawn(TRUE, 40, 0 - 1)] :
        d \in {<<Drawn(FALSE, 0 - 3, 1), Drawn(FALSE, 10, 0 - 1)>>,
                <<Drawn(FALSE, 13, 0 - 1), Drawn(TRUE, 0 - 5, 0 - 1)>>,
                <<Drawn(TRUE, 6, 0 - 1), Drawn(FALSE, 40, 0 - 1)>>}}

GameInit ==
    /\ pools = [id \in PoolIds |-> Nil]
    /\ ship = Nil
    /\ now = 0
    /\ ret = Idle
    /\ log = <<>>
    /\ ops = 0
    /\ target = "asteroids"
    /\ g = NewGame
    /\ panicked = FALSE

State == [g |-> g, pools |-> pools, ship |-> ship, log |-> log,
          panicked |-> panicked, pairs |-> <<>>, moved |-> pools]

\* the variables after a call of Update that left the state st
Becomes(st, d) ==
    /\ g' = st.g
    /\ pools' = st.pools
    /\ ship' = st.ship
    /\ log' = st.log
    /\ panicked' = st.panicked
    /\ now' = now + d
    /\ ops' = ops + 1
    /\ UNCHANGED target

MainMenuUpdate(keys, d, draw) ==
    /\ ops < MaxTicks /\ ~panicked
    /\ g.mainMenu
    /\ \E cur \in {State}, t \in {now + d} :
          \E st \in {mainMenuUpdate(cur, keys, draw, t)} : Becomes(st, d)
    /\ ret' = [op |-> "mainMenuUpdate", keys |-> keys]

GameOverUpdate(keys, d) ==
    /\ ops < MaxTicks /\ ~panicked
    /\ ~g.mainMenu /\ g.gameOver
    /\ \E cur \in {State}, t \in {now + d} :
          \E st \in {gameOverUpdate(cur, keys, t)} : Becomes(st, d)
    /\ ret' = [op |-> "gameOverUpdate", keys |-> keys]

GameUpdate(keys, d, rnd) ==
    /\ ops < MaxTicks /\ ~panicked
    /\ ~g.mainMenu /\ ~g.gameOver
    /\ \E cur \in {State}, t \in {now + d} :
          \E st \in {gameUpdate(cur, keys, rnd, t)} :
             /\ Becomes(st, d)
             /\ ret' = [op |-> "gameUpdate", keys |-> keys, pairs |-> st.pairs,
                        before |-> st.moved]

GameNext ==
    \/ \E keys \in Keys, d \in Elapsed, draw \in GameDraws :
          MainMenuUpdate(keys, d, draw)
    \/ \E keys \in Keys, d \in Elapsed : GameOverUpdate(keys, d)
    \/ \E keys \in Keys, d \in Elapsed, rnd \in Rnds : GameUpdate(keys, d, rnd)

GameSpec == GameInit /\ [][GameNext]_vars

(***************************************************************************)
(* A flight: the game played by a pilot who starts it, thrusts for Burn    *)
(* ticks, shoots once, turns the ship half a turn with the A key (0.05 rad *)
(* a tick) and thrusts again, now against the bullet.  The asteroids are   *)
(* behind the ship and recede.                                             *)
(***************************************************************************)
\* ticks of the A key that turn the ship by pi: pi / 0.05, rounded
HalfTurn == 63

\* the keys pressed in tick n of a flight
Plan(n) ==
    IF n < Burn THEN {{"W"}}
    ELSE IF n = Burn THEN {{"Space"}, {"W", "Space"}}
    ELSE IF n <= Burn + HalfTurn THEN {{"A"}}
    ELSE {{"W"}}

FlightDraws ==
    {[i \in 1 .. AsteroidCount |-> Drawn(i > 1, 0 - (50 + 10 * i + far), 0 - 1)] :
        far \in {0, 5}}

FlightStart(draw) ==
    /\ ops < MaxFlightTicks /\ ~panicked
    /\ g.mainMenu
    /\ \E cur \in {State}, t \in {now + 1} :
          \E st \in {mainMenuUpdate(cur, {"Space"}, draw, t)} : Becomes(st, 1)
    /\ ret' = [op |-> "mainMenuUpdate", keys |-> {"Space"}]

FlightUpdate(keys, rnd) ==
    /\ ops < MaxFlightTicks /\ ~panicked
    /\ ~g.mainMenu /\ ~g.gameOver
    /\ \E cur \in {State}, t \in {now + 1} :
          \E st \in {gameUpdate(cur, keys, rnd, t)} :
             /\ Becomes(st, 1)
             /\ ret' = [op |-> "gameUpdate", keys |-> keys, pairs |-> st.pairs,
                        before |-> st.moved]

FlightNext ==
    \/ \E draw \in FlightDraws : FlightStart(draw)
    \/ \E keys \in Plan(ops), rnd \in Rnds : FlightUpdate(keys, rnd)

FlightSpec == GameInit /\ [][FlightNext]_vars

(***************************************************************************)
(* A game that is followed through a ramp of the speed of light: the       *)
(* pilot may shoot in the first ticks and once more while the ramp runs,   *)
(* and then waits.                                                         *)
(***************************************************************************)
ShotTicks == {1, 2, 8}

RampPlan(n) == IF n \in ShotTicks THEN {{}, {"Space"}} ELSE {{}}

RampStart(draw) ==
    /\ ops < MaxRampTicks /\ ~panicked
    /\ g.mainMenu
    /\ \E cur \in {State}, t \in {now + 1} :
          \E st \in {mainMenuUpdate(cur, {"Space"}, draw, t)} : Becomes(st, 1)
    /\ ret' = [op |-> "mainMenuUpdate", keys |-> {"Space"}]

RampUpdate(keys, rnd) ==
    /\ ops < MaxRampTicks /\ ~panicked
    /\ ~g.mainMenu /\ ~g.gameOver
    /\ \E cur \in {State}, t \in {now + 1} :
          \E st \in {gameUpdate(cur, keys, rnd, t)} :
             /\ Becomes(st, 1)
             /\ ret' = [op |-> "gameUpdate", keys |-> keys, pairs |-> st.pairs,
                        before |-> st.moved]

RampNext ==
    \/ \E draw \in GameDraws : RampStart(draw)
    \/ \E keys \in RampPlan(ops), rnd \in Rnds : RampUpdate(keys, rnd)

RampSpec == GameInit /\ [][RampNext]_vars

(***************************************************************************)
(* A game, its end, the game-over screen, the main menu and a second game: *)
(* the player leaves the menus with Space, and in a game shoots, gives up  *)
(* with Escape or waits.                                                   *)
(***************************************************************************)
ReplayKeys == {{}, {"Space"}, {"Escape"}}

ReplayMenu(d, draw) ==
    /\ ops < MaxReplayTicks /\ ~panicked
    /\ g.mainMenu
    /\ \E cur \in {State}, t \in {now + d} :
          \E st \in {mainMenuUpdate(cur, {"Space"}, draw, t)} : Becomes(st, d)
    /\ ret' = [op |-> "mainMenuUpdate", keys |-> {"Space"}]

ReplayOver(d) ==
    /\ ops < MaxReplayTicks /\ ~panicked
    /\ ~g.mainMenu /\ g.gameOver
    /\ \E cur \in {State}, t \in {now + d} :
          \E st \in {gameOverUpdate(cur, {"Space"}, t)} : Becomes(st, d)
    /\ ret' = [op |-> "gameOverUpdate", keys |-> {"Space"}]

ReplayUpdate(keys, d, rnd) ==
    /\ ops < MaxReplayTicks /\ ~panicked
    /\ ~g.mainMenu /\ ~g.gameOver
    /\ \E cur \in {State}, t \in {now + d} :
          \E st \in {gameUpdate(cur, keys, rnd, t)} :
             /\ Becomes(st, d)
             /\ ret' = [op |-> "gameUpdate", keys |-> keys, pairs |-> st.pairs,
                        before |-> st.moved]

ReplayNext ==
    \/ \E d \in Elapsed, draw \in GameDraws : ReplayMenu(d, draw)
    \/ \E d \in Elapsed : ReplayOver(d)
    \/ \E keys \in ReplayKeys, d \in Elapsed, rnd \in Rnds :
          ReplayUpdate(keys, d, rnd)

ReplaySpec == GameInit /\ [][ReplayNext]_vars

(***************************************************************************)
(* Properties of the pool                                                  *)
(***************************************************************************)
Slots(p) == 1 .. Len(p.particles)

\* slot i of p and of q hold the same particle, flag, timestamp and tag
SameSlot(p, q, i) ==
    /\ p.particles[i] = q.particles[i]
    /\ p.active[i] = q.active[i]
    /\ p.lifetimes[i] = q.lifetimes[i]
    /\ p.sprites[i] = q.sprites[i]

\* the particle Activate builds from the arguments a
Built(a) == NewParticle(a.pos, a.rap, a.angPos, a.angVel, a.mass, a.radius)

\* C1: in every state reached by NewPool, newAsteroidPool, Activate,
\* Deactivate, Update, UpdateWith and Reset the four arrays of a pool have
\* the same length and every active slot holds a particle.
C1_ArraysAligned ==
    \A id \in PoolIds :
        LET p == pools[id]
        IN  /\ Len(p.active) = Len(p.particles)
            /\ Len(p.lifetimes) = Len(p.particles)
            /\ Len(p.sprites) = Len(p.particles)
            /\ \A i \in Slots(p) : p.active[i] => p.particles[i] # Nil

\* a pool that has grown and holds an active slot above an emptied one
C1_Witness ==
    /\ Len(pools[target].particles) >= 3
    /\ \E i, j \in Slots(pools[target]) :
          /\ i < j
          /\ ~pools[target].active[i] /\ pools[target].particles[i] = Nil
          /\ pools[target].active[j] /\ pools[target].particles[j] # Nil

\* C2: with an inactive slot, Activate puts the new particle into the
\* inactive slot of lowest index and the pool keeps its length: every other
\* slot is as before.
C2_ReuseLowestInactive ==
    (ret.op = "Activate" /\ \E k \in Slots(ret.before) : ~ret.before.active[k])
    => LET p == pools[ret.id]
           k == CHOOSE k \in Slots(ret.before) :
                   /\ ~ret.before.active[k]
                   /\ \A j \in 1 .. (k - 1) : ret.before.active[j]
       IN  /\ Len(p.particles) = Len(ret.before.particles)
           /\ p.active[k]
           /\ p.particles[k] = Built(ret.args)
           /\ p.sprites[k] = ret.args.sprite
           /\ p.lifetimes[k] = now
           /\ \A j \in Slots(p) \ {k} : SameSlot(p, ret.before, j)

\* slots 1 and 3 were active, slot 2 was freed, and the activation took slot 2
C2_Witness ==
    /\ ret.op = "Activate"
    /\ Len(ret.before.particles) = 3
    /\ ret.before.active = <<TRUE, FALSE, TRUE>>
    /\ pools[ret.id].active = <<TRUE, TRUE, TRUE>>

\* C3: with every slot active, Activate appends one active slot at index
\* len(pool) holding the new particle, and every slot that existed keeps
\* its particle, flag, timestamp and tag.
C3_GrowthKeepsSlots ==
    (ret.op = "Activate" /\ \A k \in Slots(ret.before) : ret.before.active[k])
    => LET p == pools[ret.id]
           n == Len(ret.before.particles)
       IN  /\ Len(p.particles) = n + 1
           /\ Len(p.active) = n + 1
           /\ Len(p.lifetimes) = n + 1
           /\ Len(p.sprites) = n + 1
           /\ p.active[n + 1]
           /\ p.particles[n + 1] = Built(ret.args)
           /\ p.sprites[n + 1] = ret.args.sprite
           /\ p.lifetimes[n + 1] = now
           /\ \A j \in 1 .. n : SameSlot(p, ret.before, j)

\* a full pool of two slots has grown to three
C3_Witness ==
    /\ ret.op = "Activate"
    /\ ret.before.active = <<TRUE, TRUE>>
    /\ Len(pools[ret.id].particles) = 3

\* C4: Deactivate(i) of an active slot clears the flag and the particle and
\* returns true; of an inactive slot it returns false and changes nothing.
C4_Deactivate ==
    ret.op = "Deactivate"
    => LET p == pools[ret.id]
       IN  IF ret.before.active[ret.i]
           THEN /\ ret.val = TRUE
                /\ ~p.active[ret.i]
                /\ p.particles[ret.i] = Nil
           ELSE /\ ret.val = FALSE
                /\ p = ret.before

\* a slot was deactivated twice in a row: the second call returned false
C4_Witness ==
    /\ ret.op = "Deactivate"
    /\ ret.val = FALSE
    /\ ret.before.sprites[ret.i] = 1
    /\ pools[ret.id].lifetimes[ret.i] # ZeroTime

(***************************************************************************)
(* Properties of Update and UpdateWith, read off the log of the last call  *)
(***************************************************************************)
\* the log entry e is about the particle r
Touches(e, r) == e[2] = r \/ (e[1] # "integrate" /\ e[3] = r)

Integrations(r) == {k \in 1 .. Len(log) : log[k] = <<"integrate", r>>}

Resolved(r) == \E k \in 1 .. Len(log) : log[k][1] = "resolve" /\ Touches(log[k], r)

\* slot i of p was activated more than the maximum lifetime before t
Overdue(p, i, t) == p.enforceLifetime /\ t - p.lifetimes[i] > p.maxLifetime

\* the slots an Update of p at time t works on
Live(p, t) == {i \in Slots(p) : p.active[i] /\ ~Overdue(p, i, t)}

\* C5: Update and UpdateWith on a pool with EnforceLifetime(T) leave a
\* particle activated at t0 inactive when now - t0 > T, without integrating
\* it or taking it into the collision pass; a particle with now - t0 <= T,
\* or of a pool without EnforceLifetime, stays active.
C5_LifetimeExpiry ==
    ret.op \in {"Update", "UpdateWith"}
    => LET b == ret.before
           p == pools[ret.id]
       IN  \A i \in Slots(b) :
              b.active[i]
              => IF b.enforceLifetime /\ now - b.lifetimes[i] > b.maxLifetime
                 THEN /\ ~p.active[i]
                      /\ \A k \in 1 .. Len(log) : ~Touches(log[k], i)
                 ELSE p.active[i]

\* one particle was overdue and went, one was exactly T old and stayed and
\* was checked against the ship
C5_Witness ==
    /\ ret.op = "UpdateWith"
    /\ ~ret.before.disableCollision
    /\ \E i, j \in Slots(ret.before) :
          /\ ret.before.active[i] /\ Overdue(ret.before, i, now)
          /\ ret.before.active[j]
          /\ now - ret.before.lifetimes[j] = ret.before.maxLifetime
          /\ ~pools[ret.id].active[i]
          /\ pools[ret.id].active[j]
          /\ \E k \in 1 .. Len(log) : log[k][1] = "check" /\ Touches(log[k], j)

\* C6: one Update integrates every active particle that is not overdue
\* exactly once and nothing else, finishes all integrations before the
\* first collision check, checks and resolves only pairs of the integrated
\* particles, and with DisableCollision resolves nothing: every particle is
\* as its integration left it.
C6_IntegrateThenCollide ==
    ret.op = "Update"
    => LET b == ret.before
           p == pools[ret.id]
           L == Live(b, now)
       IN  /\ \A i \in L : Cardinality(Integrations(i)) = 1
           /\ \A k \in 1 .. Len(log) :
                 IF log[k][1] = "integrate"
                 THEN /\ log[k][2] \in L
                      /\ \A l \in 1 .. (k - 1) : log[l][1] = "integrate"
                 ELSE log[k][2] \in L /\ log[k][3] \in L
           /\ \A i \in L :
                 ~Resolved(i)
                 => p.particles[i] =
                        ParticleUpdate(b.particles[i], 0, ret.frame, ret.c, 1)
           /\ \A i \in Slots(b) \ L :
                 p.particles[i] = IF b.active[i] THEN Nil ELSE b.particles[i]
           /\ b.disableCollision
              => \A k \in 1 .. Len(log) : log[k][1] = "integrate"

\* two particles were integrated, then checked and resolved
C6_Witness ==
    /\ ret.op = "Update"
    /\ Len(log) = 4
    /\ log[1][1] = "integrate" /\ log[2][1] = "integrate"
    /\ log[3][1] = "check" /\ log[4][1] = "resolve"
    /\ pools[ret.id].particles[1] #
           ParticleUpdate(ret.before.particles[1], 0, ret.frame, ret.c, 1)

\* C7: UpdateWith does not integrate the external particle (clock,
\* acceleration, angular position and Lorentz factor stay), changes it only
\* by resolving a collision it is part of, and adds nothing to the pool:
\* the four arrays keep their length and no slot becomes active.
C7_ExternalsOnlyCollide ==
    ret.op = "UpdateWith"
    => LET b == ret.before
           p == pools[ret.id]
       IN  /\ ship.Clock = ret.ship.Clock
           /\ ship.Acc = ret.ship.Acc
           /\ ship.AngPos = ret.ship.AngPos
           /\ ship.Gamma = ret.ship.Gamma
           /\ Integrations(0 - 1) = {}
           /\ ~Resolved(0 - 1) => ship = ret.ship
           /\ Len(p.particles) = Len(b.particles)
           /\ Len(p.active) = Len(b.active)
           /\ p.lifetimes = b.lifetimes
           /\ p.sprites = b.sprites
           /\ \A i \in Slots(p) : p.active[i] => b.active[i]
           /\ \A i \in Live(b, now) : Cardinality(Integrations(i)) = 1

\* the ship was hit by a particle of the pool: its velocity changed, its
\* clock did not
C7_Witness ==
    /\ ret.op = "UpdateWith"
    /\ Resolved(0 - 1)
    /\ ship.Vel # ret.ship.Vel
    /\ ship.Clock = ret.ship.Clock
    /\ \E i \in Slots(pools[ret.id]) : Cardinality(Integrations(i)) = 1

(***************************************************************************)
(* Properties of the queries                                               *)
(***************************************************************************)
Range(s) == {s[k] : k \in 1 .. Len(s)}

ActiveSlots(p) == {i \in Slots(p) : p.active[i]}

\* C8: PoolCollisions returns, each once, exactly the pairs of an active
\* slot of this pool and an active slot of the other pool whose particles
\* CheckCollision reports, and Collisions exactly the active slots whose
\* particle CheckCollision reports against the given particle; the pools
\* and the particle are as before the query.
C8_CollisionQueries ==
    /\ ret.op = "PoolCollisions"
       => LET p == pools[ret.id]
              o == pools[ret.other]
              hits == {pr \in ActiveSlots(p) \X ActiveSlots(o) :
                          CheckCollision(p.particles[pr[1]], o.particles[pr[2]],
                                         ret.frame)}
          IN  /\ Range(ret.val) = hits
              /\ Len(ret.val) = Cardinality(hits)
              /\ pools = ret.before /\ ship = ret.ship
    /\ ret.op = "Collisions"
       => LET p == pools[ret.id]
              hits == {i \in ActiveSlots(p) :
                          CheckCollision(p.particles[i], ship, ret.frame)}
          IN  /\ Range(ret.val) = hits
              /\ Len(ret.val) = Cardinality(hits)
              /\ pools = ret.before /\ ship = ret.ship

\* of two active bullets one overlaps the asteroid, and only that pair is
\* returned
C8_Witness ==
    /\ ret.op = "PoolCollisions"
    /\ Len(ret.val) = 1
    /\ Cardinality(ActiveSlots(pools[ret.id])) = 2
    /\ Cardinality(ActiveSlots(pools[ret.other])) = 1

\* the squared distance of slot i of p to pos
SqrDistOf(p, i, pos) == SqrDist(p.particles[i].Pos, pos)

\* C9: Closest returns the zero vector when no slot is active, and
\* otherwise the position of an active particle that no active particle is
\* nearer than, the one of lowest index among those at that distance.
C9_ClosestIsNearest ==
    ret.op = "Closest"
    => LET p == pools[ret.id]
           A == ActiveSlots(p)
       IN  IF A = {} THEN ret.val = 0
           ELSE \E i \in A :
                   /\ ret.val = p.particles[i].Pos
                   /\ \A j \in A :
                         ~FLt(SqrDistOf(p, j, ret.pos), SqrDistOf(p, i, ret.pos))
                   /\ \A j \in A :
                         j < i => SqrDistOf(p, j, ret.pos) # SqrDistOf(p, i, ret.pos)

(***************************************************************************)
(* Properties of the game                                                  *)
(***************************************************************************)
\* the slots of the asteroid pool is that are active and were not in was
Fresh(was, is) ==
    {s \in ActiveSlots(is) : ~(s \in Slots(was) /\ was.active[s])}

\* C10, as claimed: when the bullets of a tick hit a large asteroid that
\* was active when PoolCollisions reported the pair, then after that call
\* of gameUpdate the slot of the asteroid is inactive, exactly three slots
\* are active that were not, all of them tagged 1 and none of them the slot
\* of the asteroid, and two more asteroids are active than before.
C10_SplitPerTick ==
    (ret.op = "gameUpdate" /\ ~panicked)
    => \A k \in 1 .. Len(ret.pairs) :
          LET j == ret.pairs[k][2]
              was == ret.before.asteroids
              is == pools.asteroids
          IN  (was.active[j] /\ was.sprites[j] = 0)
              => /\ ~is.active[j]
                 /\ Cardinality(Fresh(was, is)) = 3
                 /\ \A s \in Fresh(was, is) : is.sprites[s] = 1 /\ s # j
                 /\ Cardinality(ActiveSlots(is))
                       = Cardinality(ActiveSlots(was)) + 2

\* C10, amended: when gameUpdate handles a pair whose asteroid is large and
\* active at that moment, then once that pair is handled the slot of the
\* asteroid is inactive, exactly three slots are active that were not, all
\* of them tagged 1 and none of them the slot of the asteroid, and two more
\* asteroids are active than before the pair.
C10_SplitPerPair ==
    ret.op = "gameUpdate"
    => \A k \in 1 .. Len(log) :
          LET j == log[k].asteroid
              was == log[k].before
              is == log[k].after
          IN  (was.active[j] /\ was.sprites[j] = 0)
              => /\ ~is.active[j]
                 /\ Cardinality(Fresh(was, is)) = 3
                 /\ \A s \in Fresh(was, is) : is.sprites[s] = 1 /\ s # j
                 /\ Cardinality(ActiveSlots(is))
                       = Cardinality(ActiveSlots(was)) + 2

\* one bullet has hit two large asteroids in a tick, and a small asteroid
\* of the second one has taken the slot the first one left
C10_Witness ==
    /\ ret.op = "gameUpdate" /\ ~panicked
    /\ Len(log) = 2
    /\ \A k \in 1 .. 2 :
          /\ log[k].before.active[log[k].asteroid]
          /\ log[k].before.sprites[log[k].asteroid] = 0
    /\ log[1].asteroid # log[2].asteroid
    /\ log[2].after.active[log[1].asteroid]
    /\ log[2].after.sprites[log[1].asteroid] = 1


\* C11: for each bullet-vs-asteroid pair reported in a tick, the pair is
\* handled: the bullet slot is inactive afterwards, the asteroid is removed,
\* and score and ammo each grow by 3 when the asteroid's tag is 0 and by 1
\* otherwise, both by the same amount.
C11_PairRewarded ==
    ret.op = "gameUpdate"
    => \A k \in 1 .. Len(ret.pairs) :
          /\ k <= Len(log)
          /\ log[k].bullet = ret.pairs[k][1]
          /\ log[k].asteroid = ret.pairs[k][2]
          /\ ~log[k].bullets.active[log[k].bullet]
          /\ ~log[k].after.active[log[k].asteroid]
          /\ log[k].score =
                (IF ret.before.asteroids.sprites[log[k].asteroid] = 0
                 THEN 3 ELSE 1)
          /\ log[k].ammo = log[k].score

\* two pairs were reported for one asteroid, and the first of them was
\* handled and rewarded
C11_Witness ==
    /\ ret.op = "gameUpdate"
    /\ Len(ret.pairs) = 2
    /\ ret.pairs[1][2] = ret.pairs[2][2]
    /\ Len(log) = 1
    /\ log[1].score = 3

\* the ship and the particles of the active slots of the three pools
Particles ==
    {ship} \cup UNION {{pools[id].particles[i] : i \in ActiveSlots(pools[id])} :
                          id \in PoolIds}

\* C12: in every state of a running game the ship and every active pool
\* particle have a velocity of magnitude strictly less than the current
\* speed of light c.
C12_SubLight ==
    (ship # Nil /\ ~panicked)
    => \A p \in Particles : FLt(Mag(p.Vel), g.c)

\* a bullet in flight while the ship moves the other way
C12_Witness ==
    /\ ship # Nil /\ ~panicked
    /\ \E i \in ActiveSlots(pools.bullets) :
          /\ IsFinite(pools.bullets.particles[i].Vel)
          /\ pools.bullets.particles[i].Vel > 0
    /\ IsFinite(ship.Vel) /\ ship.Vel < 0

(***************************************************************************)
(* Properties of the particle                                              *)
(***************************************************************************)
\* C13: CheckCollision is symmetric: Collisions reports slot i, that is
\* particles[i].CheckCollision(particle, frame), exactly when
\* particle.CheckCollision(particles[i], frame).
C13_CheckCollisionSymmetric ==
    ret.op = "Collisions"
    => \A i \in ActiveSlots(ret.before[ret.id]) :
          (i \in Range(ret.val))
          <=> CheckCollision(ret.ship, ret.before[ret.id].particles[i], ret.frame)

\* Collisions was asked about a particle that is length-contracted (Gamma
\* above 1), apart from the given one and moving in the frame
C13_Witness ==
    /\ ret.op = "Collisions"
    /\ \E i \in ActiveSlots(ret.before[ret.id]) :
          LET p == ret.before[ret.id].particles[i]
          IN  /\ IsFinite(p.Gamma) /\ p.Gamma > Res
              /\ IsFinite(p.Pos) /\ p.Pos # ret.ship.Pos
              /\ IsFinite(p.Vel) /\ p.Vel # ret.frame

\* the particle named r in the log of the last Update or UpdateWith, as it
\* entered the collision pass and as it is now
Entered(r) ==
    IF r < 0 THEN ret.ship
    ELSE ParticleUpdate(ret.before.particles[r], 0, ret.frame, ret.c, 1)

Left(r) == IF r < 0 THEN ship ELSE pools[ret.id].particles[r]

Resolutions == {k \in 1 .. Len(log) : log[k][1] = "resolve"}

\* the correction of the pair is a whole number of grid steps for each of
\* the two particles
EvenStep(p, q) ==
    /\ IsFinite(p.Pos) /\ IsFinite(q.Pos) /\ p.Pos # q.Pos
    /\ (ScaledRadius(p) + ScaledRadius(q) - Mag(FSub(p.Pos, q.Pos))) % 2 = 0

\* C14: after SolveCollisions has resolved a colliding pair with distinct
\* positions, CheckCollision of the two particles in the same frame is
\* false.  Stated for the calls that resolved one pair, so that the two
\* particles are as the resolution left them.
C14_ResolvedPairApart ==
    (ret.op \in {"Update", "UpdateWith"} /\ Cardinality(Resolutions) = 1)
    => \A k \in Resolutions :
          EvenStep(Entered(log[k][2]), Entered(log[k][3]))
          => ~CheckCollision(Left(log[k][2]), Left(log[k][3]), ret.frame)

\* a pair was resolved and moved apart to the sum of the scaled radii
C14_Witness ==
    /\ ret.op \in {"Update", "UpdateWith"}
    /\ Cardinality(Resolutions) = 1
    /\ \E k \in Resolutions :
          /\ EvenStep(Entered(log[k][2]), Entered(log[k][3]))
          /\ Left(log[k][2]).Pos # Entered(log[k][2]).Pos
          /\ Mag(FSub(Left(log[k][2]).Pos, Left(log[k][3]).Pos))
                 = ScaledRadius(Left(log[k][2])) + ScaledRadius(Left(log[k][3]))

\* C15: every Particle.Update of a game is called with a relative speed
\* below c, so that the stored Lorentz factor is finite and at least 1 once
\* the particle has been updated, and no particle's Lorentz factor, clock
\* or position becomes non-finite.
C15_FiniteGamma ==
    (ship # Nil /\ ~panicked)
    => \A p \in Particles :
          /\ IsFinite(p.Gamma) /\ IsFinite(p.Clock) /\ IsFinite(p.Pos)
          /\ p.Clock # 0 => p.Gamma >= Res

\* a bullet has been updated in the frame of a ship that moves against it
C15_Witness ==
    /\ ship # Nil /\ ~panicked
    /\ IsFinite(ship.Vel) /\ ship.Vel < 0
    /\ \E i \in ActiveSlots(pools.bullets) :
          LET b == pools.bullets.particles[i]
          IN  /\ IsFinite(b.Vel) /\ b.Vel > 0
              /\ IsFinite(b.Gamma) /\ b.Gamma > Res
              /\ IsFinite(b.Clock) /\ b.Clock > 0

(***************************************************************************)
(* Properties of the policies                                              *)
(***************************************************************************)
Policies(p) ==
    [enforceLifetime |-> p.enforceLifetime, maxLifetime |-> p.maxLifetime,
     fadeOverLifetime |-> p.fadeOverLifetime,
     disableCollision |-> p.disableCollision]

\* C16: Activate, Deactivate, Update, UpdateWith, PoolCollisions,
\* Collisions, Closest and Reset leave the four policies of every pool as
\* they were.
C16_PoliciesKept ==
    [][\A id \in PoolIds : Policies(pools'[id]) = Policies(pools[id])]_vars

\* a pool with a lifetime policy and an active particle was reset, after
\* other calls, and still has the policy
C16_Witness ==
    /\ ret.op = "Reset"
    /\ ops > 1
    /\ ActiveSlots(ret.before) # {}
    /\ ret.before.enforceLifetime /\ ret.before.disableCollision
    /\ ret.before.maxLifetime > 0
    /\ Policies(pools[ret.id]) = Policies(ret.before)

\* C16, in a game: from startGame on the pools have the policies startGame
\* gave them, whatever the ticks did since.
C16_GamePolicies ==
    ship # Nil
    => /\ Policies(pools.asteroids) = Policies(NewPool(0))
       /\ Policies(pools.bullets)
              = Policies(DisableCollision(EnforceLifetime(NewPool(0), Seconds(10))))
       /\ Policies(pools.explosion)
              = Policies(DisableCollision(FadeOverLifetime(
                    EnforceLifetime(NewPool(0), Seconds(1)))))

(***************************************************************************)
(* Properties of the ramp                                                  *)
(***************************************************************************)
Between(x, a, b) == (a <= x /\ x <= b) \/ (b <= x /\ x <= a)

\* the next step is a playing tick that ends without a panic
Played ==
    /\ ~g.mainMenu /\ ~g.gameOver /\ ~g.gameEnd
    /\ ret'.op = "gameUpdate" /\ ~panicked'

\* C17: a hit of a playing tick starts a ramp from the current c to
\* c/8 + 10 at the time of the tick; at the end of every playing tick with
\* a ramp running or started, c lies between the initial and the target
\* value of the ramp and is the linear image of the elapsed time while that
\* is at most the duration, and once the elapsed time exceeds the duration
\* c is the target and the ramp is off; without a hit the ramp keeps its
\* values.
C17_Ramp ==
    [][Played
       => LET since == now' - g'.cLerpStart
              hit == Len(log') > 0
          IN  /\ hit => /\ g'.cLerpStart = now'
                        /\ g'.cLerpInitial = g.c
                        /\ g'.cLerpTarget = TDiv(g.c, 8) + PerTick(100)
              /\ ~hit => /\ g'.cLerpStart = g.cLerpStart
                         /\ g'.cLerpInitial = g.cLerpInitial
                         /\ g'.cLerpTarget = g.cLerpTarget
              /\ (~hit /\ ~g.cLerp) => (g'.c = g.c /\ ~g'.cLerp)
              /\ (hit \/ g.cLerp)
                 => /\ Between(g'.c, g'.cLerpInitial, g'.cLerpTarget)
                    /\ IF since > g'.cLerpTime
                       THEN g'.c = g'.cLerpTarget /\ ~g'.cLerp
                       ELSE /\ g'.cLerp
                            /\ g'.c = mapRange(since, 0, g'.cLerpTime,
                                               g'.cLerpInitial, g'.cLerpTarget)]_vars

\* the first playing tick after the duration of a ramp that was restarted
\* by a second hit: c is the target, the ramp is off
C17_Witness ==
    /\ ret.op = "gameUpdate" /\ ~panicked /\ ~g.gameEnd
    /\ now - g.cLerpStart = g.cLerpTime + 1
    /\ ~g.cLerp
    /\ g.c = g.cLerpTarget
    /\ g.cLerpTarget # g.cLerpInitial
    /\ g.cLerpInitial # LightSpeed

(***************************************************************************)
(* Properties of velocity and rapidity                                     *)
(***************************************************************************)
\* C18: after Particle.Update the stored velocity is the tanh image of the
\* stored rapidity, Vel = unit(Rap) * c * tanh(|Rap| / c), whatever the
\* force.
C18_VelOfRap ==
    ret.op = "ParticleUpdate" => ship.Vel = TanhImage(ship.Rap, ret.c)

\* an Update with a force changed the rapidity of a particle that stays
\* finite
C18_Witness ==
    /\ ret.op = "ParticleUpdate"
    /\ ret.force # 0
    /\ IsFinite(ship.Rap) /\ IsFinite(ship.Vel) /\ IsFinite(ship.Gamma)
    /\ ship.Rap # ret.before.Rap
    /\ ship.Vel # ret.before.Vel

\* C19: after SolveCollisions has resolved a pair, the stored rapidity of
\* each of the two particles is an inverse-tanh image of its new velocity:
\* the velocity that the next Update derives from the rapidity,
\* unit(Rap) * c * tanh(|Rap| / c), is the velocity after the collision.
\* Stated for the calls that resolved one pair.
C19_RapOfVel ==
    (ret.op \in {"Update", "UpdateWith"} /\ Cardinality(Resolutions) = 1)
    => \A k \in Resolutions :
          \A r \in {log[k][2], log[k][3]} :
             TanhImage(Left(r).Rap, ret.c) = Left(r).Vel

\* a pair was resolved and one of the two left with a new velocity that is
\* finite and not zero
C19_Witness ==
    /\ ret.op \in {"Update", "UpdateWith"}
    /\ Cardinality(Resolutions) = 1
    /\ \E k \in Resolutions :
          \E r \in {log[k][2], log[k][3]} :
             /\ IsFinite(Left(r).Vel) /\ Left(r).Vel # 0
             /\ IsFinite(Left(r).Rap)
             /\ Left(r).Vel # Entered(r).Vel

(***************************************************************************)
(* Properties of the pair loop                                             *)
(***************************************************************************)
\* C20: while gameUpdate consumes the pairs of bullets.PoolCollisions in a
\* tick, the asteroid slot of every pair is active and holds the particle
\* that was reported when the pair is handled: no nil particle is
\* dereferenced, every pair of the list is handled, and no asteroid slot is
\* handled twice in the tick.
C20_PairsLive ==
    ret.op = "gameUpdate"
    => /\ ~panicked
       /\ Len(log) = Len(ret.pairs)
       /\ \A k \in 1 .. Len(log) :
             /\ log[k].before.active[log[k].asteroid]
             /\ log[k].before.particles[log[k].asteroid]
                    = ret.before.asteroids.particles[log[k].asteroid]
             /\ \A l \in 1 .. Len(log) :
                   log[l].asteroid = log[k].asteroid => l = k

\* two bullets were reported on the same asteroid and the first pair was
\* handled; and one bullet on two asteroids
C20_Witness ==
    /\ ret.op = "gameUpdate"
    /\ Len(ret.pairs) = 2
    /\ ret.pairs[1][1] # ret.pairs[2][1]
    /\ ret.pairs[1][2] = ret.pairs[2][2]
    /\ Len(log) >= 1
    /\ log[1].asteroid = ret.pairs[1][2]
    /\ ~pools.asteroids.active[log[1].asteroid]

(***************************************************************************)
(* Properties of the screens                                               *)
(***************************************************************************)
\* C21: whenever the game-over screen is shown, highScore >= score: the
\* high score that endGame recorded accounts for every point of the game
\* that ended, those of the tick in which it ended included.
C21_HighScoreCovers == g.gameOver => g.highScore >= g.score

\* the game-over screen of a game in which points were scored
C21_Witness == g.gameOver /\ ~g.mainMenu /\ ~panicked /\ g.score > 0

\* C22: every game starts at the initial speed of light: from startGame to
\* the first bullet-vs-asteroid hit of the game (the score is still 0) c is
\* the initial value, whether or not a ramp was running when the game
\* before ended.
C22_StartsAtLightSpeed ==
    (ship # Nil /\ ~panicked /\ ~g.mainMenu /\ ~g.gameOver /\ g.score = 0)
    => g.c = LightSpeed

\* a playing tick without a hit, in a game that follows one in which a
\* ramp was started
C22_Witness ==
    /\ ret.op = "gameUpdate" /\ ~panicked /\ ~g.gameEnd
    /\ g.score = 0
    /\ g.cLerpStart > ZeroTime
    /\ g.screenStart > g.cLerpStart

\* the screen a Game shows
Screen(gm) ==
    IF gm.mainMenu THEN "menu"
    ELSE IF gm.gameOver THEN "over"
    ELSE IF gm.gameEnd THEN "ending"
    ELSE "playing"

\* mainMenu and gameOver are not both set, gameEnd only when neither is,
\* and a Game that is past the main menu has its ship and its three pools
FlagsFit(gm, sh, ps) ==
    /\ ~(gm.mainMenu /\ gm.gameOver)
    /\ gm.gameEnd => (~gm.mainMenu /\ ~gm.gameOver)
    /\ (~gm.mainMenu /\ ~gm.gameOver)
       => (sh # Nil /\ \A id \in PoolIds : ps[id] # Nil)

\* C23: mainMenu and gameOver are never both true, gameEnd is true only
\* while neither is, every call of Update keeps the screen or moves it from
\* the main menu to playing (startGame), from playing to ending (endGame),
\* from ending to game over (more than 5 seconds after endGame) or from
\* game over to the main menu, and gameUpdate only runs on a Game that has
\* its ship and its three pools.
C23_ScreenCycle ==
    [][/\ FlagsFit(g, ship, pools)
       /\ FlagsFit(g', ship', pools')
       /\ \/ Screen(g') = Screen(g)
          \/ /\ Screen(g) = "menu" /\ Screen(g') = "playing"
             /\ ret'.op = "mainMenuUpdate"
          \/ /\ Screen(g) = "playing" /\ Screen(g') = "ending"
             /\ g'.gameEndTime = now'
          \/ /\ Screen(g) = "ending" /\ Screen(g') = "over"
             /\ now' - g.gameEndTime > Seconds(5)
          \/ /\ Screen(g) = "over" /\ Screen(g') = "menu"
             /\ ret'.op = "gameOverUpdate"
       /\ ret'.op = "gameUpdate" => Screen(g) \in {"playing", "ending"}]_vars

\* the main menu again, after a game, its end and the game-over screen
C23_Witness ==
    /\ ret.op = "gameOverUpdate"
    /\ Screen(g) = "menu"
    /\ ship # Nil
    /\ g.gameEndTime > ZeroTime
    /\ now - g.gameEndTime > Seconds(5)

=============================================================================
